---- MODULE Spec2Model ----
(***************************************************************************)
(* A model of the dispatcher of src/bridge/io/dispatcher/mod.rs: the       *)
(* Dispatcher facade used by external threads, the task channel, the       *)
(* PollingLoop thread and its SocketMap.                                   *)
(*                                                                         *)
(* Widths are scaled: usize has the values 0..USIZE_MAX.  Arithmetic that  *)
(* leaves that range either panics (a build with overflow checks) or wraps *)
(* (a build without); both outcomes are kept.  Locking a std Mutex that    *)
(* the same thread already holds never returns: it deadlocks or panics,    *)
(* and both outcomes are kept.  Poll::poll itself is taken not to fail.    *)
(***************************************************************************)
EXTENDS Integers, Sequences, FiniteSets, TLC

\* ------------------------------------------------------------------ bounds
\* std::usize::MAX, scaled down.
USIZE_MAX == 6
\* Number of tasks the facade submits in one behaviour.
MaxTasks == 2
\* Number of explicit stop() calls in one behaviour.
MaxStopCalls == 2
\* event_buffer_size given to Dispatcher::new.
EventBufferSize == 1
\* Codec: binary fields of the lengths 0..SmallLen are tried (next to the long ones).
SmallLen == 2
\* Codec: an encoding of at most FullCut bytes is read back at every prefix
\* length, a longer one at the first HeadCut and the last prefix lengths.
FullCut == 51
HeadCut == 8

VARIABLES
  dAlive,     \* the Dispatcher (and with it the Sender and the mio::Waker) is not yet dropped
  dClosed,    \* Dispatcher.closed
  extPc,      \* where the thread that currently uses the Dispatcher stands
  chan,       \* tasks sent and not yet received
  wakeReady,  \* the Waker's readiness is pending at the poller
  slot,       \* slot[t]: kind and TaskState.result of task t, in submission order
  pc,         \* where the loop thread stands
  lClosed,    \* PollingLoop.closed
  events,     \* event_sockets not yet dispatched: token -> readiness left to look at (f), socket resolved (k)
  cur,        \* token of the event whose callbacks are under way (its lock is held)
  sockets,    \* SocketMap.sockets: id -> kind
  next,       \* SocketMap.next
  reg,        \* registrations at the Poll registry: token -> interest
  fault,      \* the call that failed on the loop thread (the thread dies or hangs there)
  execOrder,  \* history: the tasks in the order the loop executed them
  stopCalls,  \* history: number of explicit stop() calls
  lastCb,     \* history: the callback step the loop made last: socket, readiness, callback, action
  lastAlloc,  \* history: the available_id() call the last loop step made: cursor and ids before, outcome
  muted,      \* history: streams whose on_ready_to_write returned ChangeFlag(READABLE), interest not reset since
  cstage,     \* codec: the operation applied last
  args,       \* codec: the arguments given to the constructor
  cmsg,       \* codec: what the constructor returned
  wire,       \* codec: the bytes write_to produced (or the bytes received)
  got,        \* codec: what read_from returned
  more,       \* codec: the message written behind the first one, and what the second read_from returned
  cut         \* codec: length of the prefix of wire given to read_from

dispVars == <<dAlive, dClosed, extPc, chan, wakeReady, slot, pc, lClosed, events, cur,
              sockets, next, reg, fault, execOrder, stopCalls, lastCb, lastAlloc, muted>>

codecVars == <<cstage, args, cmsg, wire, got, more, cut>>

vars == <<dispVars, codecVars>>

loopVars == <<pc, lClosed, events, cur, sockets, next, reg, fault, lastCb, lastAlloc, muted>>

\* ------------------------------------------------------------------ helpers
EmptyMap == [x \in {} |-> 0]
Put(f, k, v) == [x \in (DOMAIN f) \cup {k} |-> IF x = k THEN v ELSE f[x]]
Remove(f, k) == [x \in (DOMAIN f) \ {k} |-> f[x]]

NoTok == 0 - 1
\* No callback step.  Of a callback step: tok, the event's token; ready, the
\* readiness of the event not yet looked at; te, what take_error() returned;
\* cb, the callback made; act and i, the action it returned; muted and gone,
\* whether the stream was muted, and already removed from the SocketMap, when
\* the step began.
NoCb == [tok |-> NoTok, ready |-> {}, te |-> "none", cb |-> "none", act |-> "none", i |-> {},
         muted |-> FALSE, gone |-> FALSE]
NoAlloc == [kind |-> "none", id |-> 0, nx |-> 0, before |-> {}, set |-> FALSE, err |-> "none"]

\* mio::Interest values a handler can ask for.
Interests == {{"r"}, {"w"}, {"r", "w"}}
\* DispatcherAction
DispatcherAction ==
  {[t |-> "Continue", i |-> {}], [t |-> "Dispose", i |-> {}]}
    \cup {[t |-> "ChangeFlag", i |-> i] : i \in Interests}

\* ------------------------------------------------------------------ SocketMap
\* let max = std::usize::MAX - 2
max == USIZE_MAX - 2
Wrap(x) == x % (USIZE_MAX + 1)

IsFree_NoCheck(id, live) == TRUE
\* self.sockets.get(&id).is_none()
IsFree(id, live) == id \notin live

\* self.next = if self.next + 1 == max { 0 } else { self.next + 1 }
Advance(nx) == IF nx + 1 = max THEN 0 ELSE nx + 1

\* The for loop of available_id from index i on.  chk: the build checks
\* arithmetic overflow (and panics), otherwise arithmetic wraps.
RECURSIVE Scan(_, _, _, _)
Scan(nx, live, i, chk) ==
  IF i > max THEN [kind |-> "unreachable", id |-> 0, next |-> nx]
  ELSE IF chk /\ nx + i >= USIZE_MAX
    THEN [kind |-> "panic", id |-> 0, next |-> nx]
    ELSE LET id == Wrap(Wrap(nx + i) + 1) IN
         IF IsFree(id, live)
           THEN [kind |-> "ok", id |-> id, next |-> Advance(nx)]
           ELSE Scan(nx, live, i + 1, chk)

\* SocketMap::available_id
available_id(nx, live, chk) ==
  IF Cardinality(live) = max
    THEN [kind |-> "err", id |-> 0, next |-> nx]
    ELSE Scan(nx, live, 0, chk)

\* SocketMap::ids
ids == DOMAIN sockets

\* SocketMap::get: the sockets an event token resolves to (0 is the Waker)
Resolves(tok) == tok = 0 \/ tok \in DOMAIN sockets

\* ------------------------------------------------------------------ initial state
\* Dispatcher::new: channel, Poll, Waker at Token(0), PollingLoop::new, spawn.
Init ==
  /\ dAlive = TRUE
  /\ dClosed = FALSE
  /\ extPc = "idle"
  /\ chan = <<>>
  /\ wakeReady = FALSE
  /\ slot = <<>>
  /\ pc = "poll"
  /\ lClosed = FALSE
  /\ events = EmptyMap
  /\ cur = NoTok
  /\ sockets = EmptyMap
  /\ next = 0
  /\ reg = EmptyMap
  /\ fault = "none"
  /\ execOrder = <<>>
  /\ stopCalls = 0
  /\ lastCb = NoCb
  /\ lastAlloc = NoAlloc
  /\ muted = {}
  /\ cstage = "idle"
  /\ args = [variant |-> "none"]
  /\ cmsg = [ok |-> FALSE, err |-> "none"]
  /\ wire = <<>>
  /\ got = [ok |-> FALSE, err |-> "none"]
  /\ more = [ok |-> FALSE]
  /\ cut = 0

\* ------------------------------------------------------------------ facade
\* The Receiver lives in PollingLoop::start; it is dropped when start returns
\* or unwinds.
ReceiverAlive == pc \notin {"done", "panicked"}

\* Task::new and its TaskState (result: None, waker: None).  st, id and err
\* are the result once written ("none": never written) and taken whether a
\* poll has taken it out of the slot; waker is the stored waker (0: None).
\* The other fields are history: poke, the outcome of the wake() of the task's
\* submission; late, whether the loop's closed flag was already set when the
\* task was submitted; out and pw, what the last poll of the task's future
\* returned and the waker of the Context it was given; woke, the waker the
\* loop woke when it completed the task (0: none).
NewSlot(kind) ==
  [kind |-> kind, st |-> "none", id |-> 0, err |-> "none", taken |-> FALSE, waker |-> 0,
   poke |-> "none", late |-> lClosed, out |-> "none", pw |-> 0, woke |-> 0]

\* Dispatcher::run_in_event_loop, first half: Task::new, TaskFuture, and
\* self.sender.send(task).unwrap().  The thread goes on at `after`.
Send(kind, after) ==
  /\ Len(slot) < MaxTasks
  /\ IF ReceiverAlive
       THEN /\ slot' = Append(slot, NewSlot(kind))
            /\ chan' = Append(chan, Len(slot) + 1)
            /\ extPc' = after
       ELSE /\ extPc' = "panicked"
            /\ UNCHANGED <<slot, chan>>

\* what self.waker.wake() leaves at the poller
WakeSource == TRUE

\* Dispatcher::run_in_event_loop, second half: self.waker.wake().unwrap() for
\* the task just sent.  wakeOk: wake() returns Ok; the code unwraps the result,
\* so an Err panics the calling thread (what follows that panic is not
\* followed: no further call is made on the Dispatcher).
Wake ==
  /\ extPc \in {"wake", "dropwake"}
  /\ \E wakeOk \in BOOLEAN :
       IF wakeOk
         THEN /\ wakeReady' = WakeSource
              /\ extPc' = IF extPc = "wake" THEN "idle" ELSE "dropfields"
              /\ slot' = [slot EXCEPT ![Len(slot)].poke = "ok"]
         ELSE /\ extPc' = "panicked"
              /\ slot' = [slot EXCEPT ![Len(slot)].poke = "failed"]
              /\ UNCHANGED wakeReady
  /\ UNCHANGED <<dAlive, dClosed, stopCalls, chan, execOrder>>
  /\ UNCHANGED loopVars
  /\ UNCHANGED codecVars

\* The wakers a future is polled with: two, so that a poll can bring the
\* waker the slot already holds or another one.
Wakers == {1, 2}

\* impl Future for TaskFuture, poll(cx) of the future of task t with waker w.
\* The future is in its caller's hands once run_in_event_loop has returned,
\* and a caller does not poll a future again after it returned Ready
\* (the contract of Future::poll).
PollFuture(t, w) ==
  /\ t \in 1..Len(slot)
  /\ slot[t].poke = "ok"
  /\ slot[t].out # "Ready"
  /\ IF slot[t].st # "none" /\ ~slot[t].taken
       THEN slot' = [slot EXCEPT ![t].taken = TRUE, ![t].out = "Ready", ![t].pw = w]
       ELSE slot' = [slot EXCEPT ![t].waker = w, ![t].out = "Pending", ![t].pw = w]
  /\ UNCHANGED <<dAlive, dClosed, extPc, stopCalls, chan, wakeReady, execOrder>>
  /\ UNCHANGED loopVars
  /\ UNCHANGED codecVars

Boxed_Runs(nx) == Advance(nx)
\* Box::new(move |polling: &mut PollingLoop| { .. }): register builds the
\* closure and hands it to run_in_event_loop; nothing of it runs on the
\* caller's thread, the allocator cursor is as it was.
Boxed(nx) == nx

\* DispatcherRegister::register for a TcpStream or a TcpListener
Register(kind) ==
  /\ extPc = "idle" /\ dAlive
  /\ Send(kind, "wake")
  /\ next' = Boxed(next)
  /\ UNCHANGED <<dAlive, dClosed, stopCalls, wakeReady, execOrder>>
  /\ UNCHANGED <<pc, lClosed, events, cur, sockets, reg, fault, lastCb, lastAlloc, muted>>
  /\ UNCHANGED codecVars

\* self.closed.compare_and_swap(false, true, SeqCst) returns the previous value;
\* stop() submits the stop task when that value is true.
SubmitsStop(previous) == previous

\* Dispatcher::stop
Stop ==
  /\ extPc = "idle" /\ dAlive
  /\ stopCalls < MaxStopCalls
  /\ stopCalls' = stopCalls + 1
  /\ dClosed' = TRUE
  /\ IF SubmitsStop(dClosed)
       THEN Send("stop", "wake")
       ELSE UNCHANGED <<slot, chan, extPc>>
  /\ UNCHANGED <<dAlive, wakeReady, execOrder>>
  /\ UNCHANGED loopVars
  /\ UNCHANGED codecVars

\* impl Drop for Dispatcher: self.stop(), then the fields are dropped
Drop ==
  /\ extPc = "idle" /\ dAlive
  /\ dClosed' = TRUE
  /\ IF SubmitsStop(dClosed)
       THEN Send("stop", "dropwake")
       ELSE extPc' = "dropfields" /\ UNCHANGED <<slot, chan>>
  /\ UNCHANGED <<dAlive, stopCalls, wakeReady, execOrder>>
  /\ UNCHANGED loopVars
  /\ UNCHANGED codecVars

\* The Sender and the mio::Waker are dropped.  mio delivers a Waker's events
\* only while the Waker is alive: a wake-up not yet collected may be lost.
DropFields ==
  /\ extPc = "dropfields"
  /\ dAlive' = FALSE
  /\ extPc' = "idle"
  /\ \E delivered \in BOOLEAN : wakeReady' = (wakeReady /\ delivered)
  /\ UNCHANGED <<dClosed, stopCalls, chan, slot, execOrder>>
  /\ UNCHANGED loopVars
  /\ UNCHANGED codecVars

\* ------------------------------------------------------------------ the loop thread
InitialInterest_AllRW(kind) == {"r", "w"}
\* Interest a registration starts with: READABLE for a TcpListener,
\* READABLE | WRITABLE for a TcpStream.
InitialInterest(kind) == IF kind = "Listener" THEN {"r"} ELSE {"r", "w"}

Readiness_AnyInterest(t) ==
  IF t = 0 THEN {{"r"}}
  ELSE {f \in SUBSET {"r", "w", "e"} : f # {}}

\* Readiness a poll can report for token t: within the registered interest;
\* an error condition is reported whatever the interest.
Readiness(t) ==
  IF t = 0 THEN {{"r"}}
  ELSE {f \in SUBSET (reg[t] \cup {"e"}) : f # {}}

\* What one call of self.poll.poll(&mut events, None) can fill the buffer with.
Batches ==
  LET toks == (DOMAIN reg) \cup (IF wakeReady THEN {0} ELSE {})
      doms == {D \in SUBSET toks :
                 /\ D # {}
                 /\ Cardinality(D) <= EventBufferSize
                 /\ (wakeReady /\ 0 \notin D) => Cardinality(D) = EventBufferSize}
  IN UNION {{E \in [D -> SUBSET {"r", "w", "e"}] : \A t \in D : E[t] \in Readiness(t)}
              : D \in doms}

\* start(): poll returns; event_sockets keeps the events whose token resolves.
PollReturn ==
  /\ pc = "poll"
  /\ \E E \in Batches :
       /\ events' = [t \in {x \in DOMAIN E : Resolves(x)} |->
                       [f |-> E[t], k |-> IF t = 0 THEN "Waker" ELSE sockets[t]]]
       /\ wakeReady' = (wakeReady /\ 0 \notin DOMAIN E)
  /\ pc' = "dispatch"
  /\ lastCb' = NoCb /\ lastAlloc' = NoAlloc
  /\ UNCHANGED muted
  /\ UNCHANGED <<lClosed, cur, sockets, next, reg, fault>>
  /\ UNCHANGED <<dAlive, dClosed, extPc, stopCalls, chan, slot, execOrder>>
  /\ UNCHANGED codecVars

\* PollingLoop::close(id).  held: the caller holds the lock of socket id (the
\* for loop of start() does, around the callbacks); relock: what the second
\* lock() of the same thread does; deregOk: deregister succeeds.
close(id, held, relock, deregOk) ==
  IF id \notin DOMAIN sockets
    THEN [sockets |-> sockets, reg |-> reg, pc |-> "run", fault |-> "none"]
  ELSE IF held
    THEN [sockets |-> Remove(sockets, id), reg |-> reg, pc |-> relock, fault |-> "relock"]
  ELSE IF deregOk
    THEN [sockets |-> Remove(sockets, id), reg |-> Remove(reg, id), pc |-> "run", fault |-> "none"]
  ELSE [sockets |-> Remove(sockets, id), reg |-> reg, pc |-> "panicked", fault |-> "deregister"]

\* PollingLoop::action(id, source, action), called under the socket's lock.
\* regOk: reregister succeeds (the code unwraps its result).
action(id, act, regOk, relock) ==
  CASE act.t = "Continue" ->
         [sockets |-> sockets, reg |-> reg, pc |-> "run", fault |-> "none"]
    [] act.t = "ChangeFlag" ->
         IF regOk
           THEN [sockets |-> sockets, reg |-> Put(reg, id, act.i), pc |-> "run", fault |-> "none"]
           ELSE [sockets |-> sockets, reg |-> reg, pc |-> "panicked", fault |-> "reregister"]
    [] act.t = "Dispose" -> close(id, TRUE, relock, TRUE)

\* The readiness on_tcp_stream looks at next: readable, then writable, then error.
FirstFlag_WriteFirst(f) == IF "w" \in f THEN "w" ELSE IF "r" \in f THEN "r" ELSE "e"
FirstFlag(f) == IF "r" \in f THEN "r" ELSE IF "w" \in f THEN "w" ELSE "e"
CallbackOf(flag) ==
  CASE flag = "r" -> "on_ready_to_read"
    [] flag = "w" -> "on_ready_to_write"
    [] flag = "e" -> "on_error"

\* What the loop state becomes after a callback's action was applied; rest is
\* the readiness of the event that on_tcp_stream has still to look at.
AfterAction(tok, rest, r) ==
  /\ sockets' = r.sockets
  /\ reg' = r.reg
  /\ fault' = r.fault
  /\ IF r.pc = "run"
       THEN /\ pc' = "dispatch"
            /\ IF rest = {}
                 THEN events' = Remove(events, tok) /\ cur' = NoTok
                 ELSE events' = [events EXCEPT ![tok].f = rest] /\ cur' = tok
       ELSE /\ pc' = r.pc
            /\ UNCHANGED <<events, cur>>

\* start(), Socket::Waker arm
DispatchWaker ==
  /\ pc = "dispatch" /\ cur = NoTok
  /\ 0 \in DOMAIN events
  /\ events' = Remove(events, 0)
  /\ lastCb' = NoCb /\ lastAlloc' = NoAlloc
  /\ UNCHANGED muted
  /\ UNCHANGED <<pc, lClosed, cur, sockets, next, reg, fault>>
  /\ UNCHANGED <<dAlive, dClosed, extPc, stopCalls, chan, wakeReady, slot, execOrder>>
  /\ UNCHANGED codecVars

\* History of on_ready_to_write answers: the stream of tok is muted from the
\* moment its on_ready_to_write returns ChangeFlag(READABLE) until an action
\* sets an interest that includes WRITABLE (or the socket is disposed).
MutedAfter(tok, cb, act) ==
  CASE act.t = "ChangeFlag" /\ "w" \in act.i -> muted \ {tok}
    [] act.t = "ChangeFlag" /\ act.i = {"r"} /\ cb = "on_ready_to_write" -> muted \cup {tok}
    [] act.t = "Dispose" -> muted \ {tok}
    [] OTHER -> muted

\* The outcomes that matter for an action: whether reregister succeeds (for
\* ChangeFlag) and what the second lock() does (for Dispose).
RegOutcomes(act) == IF act.t = "ChangeFlag" THEN BOOLEAN ELSE {TRUE}
RelockOutcomes_Returns(act) == {"run"}
RelockOutcomes(act) == IF act.t = "Dispose" THEN {"stuck", "panicked"} ELSE {"stuck"}

\* start(), Socket::Stream arm: one step of on_tcp_stream for the event of tok
\* (an event with none of the three kinds of readiness makes no call and is
\* left out).  takeError: what stream.take_error() returns.
StreamStep(tok) ==
  /\ pc = "dispatch" /\ cur \in {NoTok, tok}
  /\ tok \in DOMAIN events /\ tok # 0
  /\ events[tok].k = "Stream"
  /\ LET flag == FirstFlag(events[tok].f) IN
     \E takeError \in (IF flag = "e" THEN {"some", "none", "failed"} ELSE {"some"}) :
     \E act \in (IF flag = "e" /\ takeError = "none" THEN {[t |-> "Continue", i |-> {}]}
                                                      ELSE DispatcherAction) :
       \E regOk \in RegOutcomes(act), relock \in RelockOutcomes(act) :
         LET called == flag # "e" \/ takeError # "none"
             behaviour == IF called THEN act ELSE [t |-> "Continue", i |-> {}]
         IN /\ lastCb' = [tok |-> tok, ready |-> events[tok].f,
                           te |-> IF flag = "e" THEN takeError ELSE "none",
                           cb |-> IF called THEN CallbackOf(flag) ELSE "none",
                           act |-> IF called THEN act.t ELSE "none",
                           i |-> IF called THEN act.i ELSE {},
                           muted |-> tok \in muted, gone |-> tok \notin ids]
            /\ muted' = MutedAfter(tok, CallbackOf(flag), behaviour)
            /\ AfterAction(tok, events[tok].f \ {flag},
                           action(tok, behaviour, regOk, relock))
  /\ lastAlloc' = NoAlloc
  /\ UNCHANGED <<lClosed, next>>
  /\ UNCHANGED <<dAlive, dClosed, extPc, stopCalls, chan, wakeReady, slot, execOrder>>
  /\ UNCHANGED codecVars

\* start(), Socket::Listener arm: on_tcp_listener for the event of tok.
\* acceptOk: listener.accept() succeeds (the code unwraps its result).
ListenerStep(tok) ==
  /\ pc = "dispatch" /\ cur = NoTok
  /\ tok \in DOMAIN events /\ tok # 0
  /\ events[tok].k = "Listener"
  /\ IF "r" \in events[tok].f
       THEN \E acceptOk \in BOOLEAN :
              IF acceptOk
                THEN \E act \in DispatcherAction :
                       \E regOk \in RegOutcomes(act), relock \in RelockOutcomes(act) :
                         /\ lastCb' = [tok |-> tok, ready |-> events[tok].f, te |-> "none",
                                        cb |-> "on_accept", act |-> act.t, i |-> act.i,
                                        muted |-> FALSE, gone |-> tok \notin ids]
                         /\ AfterAction(tok, {}, action(tok, act, regOk, relock))
                ELSE /\ lastCb' = NoCb
                     /\ pc' = "panicked" /\ fault' = "accept"
                     /\ UNCHANGED <<events, cur, sockets, reg>>
       ELSE /\ events' = Remove(events, tok)
            /\ lastCb' = NoCb
            /\ UNCHANGED <<pc, cur, sockets, reg, fault>>
  /\ lastAlloc' = NoAlloc
  /\ UNCHANGED <<lClosed, next, muted>>
  /\ UNCHANGED <<dAlive, dClosed, extPc, stopCalls, chan, wakeReady, slot, execOrder>>
  /\ UNCHANGED codecVars

register_InsertsFirst(kind, chk, regOk) ==
  LET o == available_id(next, ids, chk) IN
  IF o.kind = "ok"
    THEN [sockets |-> Put(sockets, o.id, kind), reg |-> reg, next |-> o.next,
          st |-> IF regOk THEN "ok" ELSE "err", id |-> o.id,
          err |-> IF regOk THEN "none" ELSE "Io"]
    ELSE [sockets |-> sockets, reg |-> reg, next |-> next,
          st |-> "err", id |-> 0, err |-> "TooManySockets"]

\* The closure of DispatcherRegister::register run on the loop state:
\* available_id()?, registry().register(..)?, sockets.set(id, ..), Ok(id).
\* regOk: registering the source with the Poll registry succeeds.
register(kind, chk, regOk) ==
  LET o == available_id(next, ids, chk) IN
  CASE o.kind = "err" ->
         [sockets |-> sockets, reg |-> reg, next |-> next,
          st |-> "err", id |-> 0, err |-> "TooManySockets"]
    [] o.kind = "ok" /\ ~regOk ->
         [sockets |-> sockets, reg |-> reg, next |-> o.next,
          st |-> "err", id |-> 0, err |-> "Io"]
    [] o.kind = "ok" /\ regOk ->
         [sockets |-> Put(sockets, o.id, kind), reg |-> Put(reg, o.id, InitialInterest(kind)),
          next |-> o.next, st |-> "ok", id |-> o.id, err |-> "none"]
    [] OTHER ->
         [sockets |-> sockets, reg |-> reg, next |-> next,
          st |-> "panic", id |-> 0, err |-> "none"]

\* The history record of that available_id() call.
AllocRecord(chk, r) ==
  [kind |-> available_id(next, ids, chk).kind, id |-> available_id(next, ids, chk).id,
   nx |-> next, before |-> ids, set |-> r.st = "ok", err |-> r.err]

TakeWaker_Keep(w) == w
\* state.waker.take(): what is left in the slot (the waker taken is woken)
TakeWaker(w) == 0
WakeTaken_None(w) == 0
\* if let Some(waker) = state.waker.take() { waker.wake() }: the waker woken
WakeTaken(w) == w

Recv_Last(q) == [task |-> q[Len(q)], rest |-> SubSeq(q, 1, Len(q) - 1)]
\* receiver.iter(): the next task of the channel
Recv(q) == [task |-> Head(q), rest |-> Tail(q)]

DrainPoint_InDispatch == pc \in {"tasks", "dispatch"}
\* start() calls run_all_tasks after the for loop over event_sockets
DrainPoint == pc = "tasks"

\* run_all_tasks: one iteration of `for Task { executable, state } in receiver.iter()`
RunTask ==
  /\ DrainPoint
  /\ chan # <<>>
  /\ LET m == Recv(chan)
         t == m.task
     IN /\ chan' = m.rest
        /\ execOrder' = Append(execOrder, t)
        /\ IF slot[t].kind = "stop"
             THEN /\ lClosed' = TRUE
                  /\ slot' = [slot EXCEPT ![t].st = "ok",
                                               ![t].waker = TakeWaker(slot[t].waker),
                                               ![t].woke = WakeTaken(slot[t].waker)]
                  /\ lastAlloc' = NoAlloc
                  /\ UNCHANGED <<pc, sockets, next, reg, fault>>
             ELSE \E chk \in BOOLEAN, regOk \in BOOLEAN :
                    LET r == register(slot[t].kind, chk, regOk) IN
                    /\ lastAlloc' = AllocRecord(chk, r)
                    /\ sockets' = r.sockets
                    /\ reg' = r.reg
                    /\ next' = r.next
                    /\ IF r.st = "panic"
                         THEN /\ pc' = "panicked" /\ fault' = "overflow"
                              /\ UNCHANGED slot
                         ELSE /\ slot' = [slot EXCEPT ![t].st = r.st, ![t].id = r.id,
                                                      ![t].err = r.err,
                                                      ![t].waker = TakeWaker(slot[t].waker),
                                                      ![t].woke = WakeTaken(slot[t].waker)]
                              /\ UNCHANGED <<pc, fault>>
                    /\ UNCHANGED lClosed
  /\ lastCb' = NoCb
  /\ UNCHANGED <<events, cur, muted>>
  /\ UNCHANGED <<dAlive, dClosed, extPc, stopCalls, wakeReady>>
  /\ UNCHANGED codecVars

\* for loop of start() is over: run_all_tasks is entered
DispatchDone ==
  /\ pc = "dispatch" /\ cur = NoTok
  /\ DOMAIN events = {}
  /\ pc' = "tasks"
  /\ lastCb' = NoCb /\ lastAlloc' = NoAlloc
  /\ UNCHANGED muted
  /\ UNCHANGED <<lClosed, events, cur, sockets, next, reg, fault>>
  /\ UNCHANGED <<dAlive, dClosed, extPc, stopCalls, chan, wakeReady, slot, execOrder>>
  /\ UNCHANGED codecVars

\* receiver.iter() ends: the channel is empty and every Sender is dropped.
\* Then `while !self.closed` is evaluated.
TasksReturn ==
  /\ pc = "tasks"
  /\ chan = <<>> /\ ~dAlive
  /\ pc' = IF lClosed THEN "cleanup" ELSE "poll"
  /\ lastCb' = NoCb /\ lastAlloc' = NoAlloc
  /\ UNCHANGED muted
  /\ UNCHANGED <<lClosed, events, cur, sockets, next, reg, fault>>
  /\ UNCHANGED <<dAlive, dClosed, extPc, stopCalls, chan, wakeReady, slot, execOrder>>
  /\ UNCHANGED codecVars

\* cleanup(): close(id) for one id of self.sockets.ids()
CleanupClose(id) ==
  /\ pc = "cleanup"
  /\ id \in ids
  /\ \E deregOk \in BOOLEAN :
       LET r == close(id, FALSE, "stuck", deregOk) IN
       /\ sockets' = r.sockets
       /\ reg' = r.reg
       /\ fault' = r.fault
       /\ pc' = IF r.pc = "run" THEN "cleanup" ELSE r.pc
  /\ lastCb' = NoCb /\ lastAlloc' = NoAlloc
  /\ muted' = muted \ {id}
  /\ UNCHANGED <<lClosed, events, cur, next>>
  /\ UNCHANGED <<dAlive, dClosed, extPc, stopCalls, chan, wakeReady, slot, execOrder>>
  /\ UNCHANGED codecVars

\* cleanup() is over; start() returns Ok(())
CleanupDone ==
  /\ pc = "cleanup"
  /\ ids = {}
  /\ pc' = "done"
  /\ lastCb' = NoCb /\ lastAlloc' = NoAlloc
  /\ UNCHANGED muted
  /\ UNCHANGED <<lClosed, events, cur, sockets, next, reg, fault>>
  /\ UNCHANGED <<dAlive, dClosed, extPc, stopCalls, chan, wakeReady, slot, execOrder>>
  /\ UNCHANGED codecVars

\* ------------------------------------------------------------------ specification
FacadeNext ==
  \/ \E kind \in {"Stream", "Listener"} : Register(kind)
  \/ Stop
  \/ Drop
  \/ Wake
  \/ DropFields

LoopNext ==
  \/ PollReturn
  \/ DispatchWaker
  \/ \E tok \in DOMAIN events : StreamStep(tok)
  \/ \E tok \in DOMAIN events : ListenerStep(tok)
  \/ DispatchDone
  \/ RunTask
  \/ TasksReturn
  \/ \E id \in DOMAIN sockets : CleanupClose(id)
  \/ CleanupDone

Next == FacadeNext \/ LoopNext

Spec == Init /\ [][Next]_vars

\* A Dispatcher that is not dropped, with the futures it returned being
\* polled: the loop thread gets to run_all_tasks and serves the channel there
\* (receiver.iter() does not end while the Sender lives).
FutureNext ==
  \/ \E kind \in {"Stream", "Listener"} : Register(kind)
  \/ Stop
  \/ Wake
  \/ \E t \in 1..Len(slot), w \in Wakers : PollFuture(t, w)
  \/ PollReturn
  \/ DispatchWaker
  \/ DispatchDone
  \/ RunTask

FutureSpec == Init /\ [][FutureNext]_vars

\* ------------------------------------------------------------------ the registry alone
\* The two operations the loop applies to its SocketMap and Poll registry, in
\* any order: the closure of register, and close(id) as cleanup calls it (no
\* socket lock held).
RegistryRegister(kind) ==
  /\ fault = "none"
  /\ \E chk \in BOOLEAN, regOk \in BOOLEAN :
       LET r == register(kind, chk, regOk) IN
       /\ lastAlloc' = AllocRecord(chk, r)
       /\ sockets' = r.sockets
       /\ reg' = r.reg
       /\ next' = r.next
       /\ IF r.st = "panic"
            THEN pc' = "panicked" /\ fault' = "overflow"
            ELSE UNCHANGED <<pc, fault>>
  /\ UNCHANGED <<lClosed, events, cur, lastCb, muted>>
  /\ UNCHANGED <<dAlive, dClosed, extPc, stopCalls, chan, wakeReady, slot, execOrder>>
  /\ UNCHANGED codecVars

RegistryClose(id) ==
  /\ fault = "none"
  /\ id \in ids
  /\ \E deregOk \in BOOLEAN :
       LET r == close(id, FALSE, "stuck", deregOk) IN
       /\ sockets' = r.sockets
       /\ reg' = r.reg
       /\ fault' = r.fault
       /\ pc' = IF r.pc = "run" THEN pc ELSE r.pc
  /\ lastAlloc' = NoAlloc
  /\ muted' = muted \ {id}
  /\ UNCHANGED <<lClosed, events, cur, next, lastCb>>
  /\ UNCHANGED <<dAlive, dClosed, extPc, stopCalls, chan, wakeReady, slot, execOrder>>
  /\ UNCHANGED codecVars

RegistryNext ==
  \/ \E kind \in {"Stream", "Listener"} : RegistryRegister(kind)
  \/ \E id \in DOMAIN sockets : RegistryClose(id)

RegistrySpec == Init /\ [][RegistryNext]_vars

\* ------------------------------------------------------------------ the wire codec
\* src/msg/mod.rs.  Bytes, u16 and the length prefix keep their widths; the
\* values of the u32, u64 and u128 fields are drawn small, their width on the
\* wire is the code's.  The writer is a Vec<u8>, the reader a Cursor over a
\* byte slice, as in the tests of the module.
MAX_PAYLOAD_SIZE == 61439
MAX_LOSS_RATE == 127
ID_CTRL_SYSCONFIG == 81
ID_CTRL_PING == 80

Ok(v) == [ok |-> TRUE, v |-> v]
Err(e) == [ok |-> FALSE, err |-> e]

\* byteorder's write_uN::<LittleEndian>: the n bytes of v, low byte first
RECURSIVE LE(_, _)
LE(v, n) == IF n = 0 THEN <<>> ELSE <<v % 256>> \o LE(v \div 256, n - 1)

\* byteorder's read_uN::<LittleEndian> on the bytes read
RECURSIVE FromLE(_)
FromLE(b) == IF b = <<>> THEN 0 ELSE Head(b) + 256 * FromLE(Tail(b))

\* write_bin: write_u16(value.len() as u16), then write_all(value)
write_bin(value) == LE(Len(value) % 65536, 2) \o value

\* Open::write_to
Open_write_to(m) ==
  LE(m.pipe_id, 2) \o LE(m.function_id, 2) \o LE(m.priority, 1) \o write_bin(m.params)

\* Close::write_to
Close_write_to(m) ==
  LET bit_field == IF m.failure THEN 1 ELSE 0
  IN LE(m.pipe_id, 2) \o LE(bit_field, 1) \o write_bin(m.result)

\* Block::write_to: self.loss | if self.eof { 1 << 7 } else { 0 }, with loss < 128
Block_write_to(m) ==
  LET bit_field == m.loss + (IF m.eof THEN 128 ELSE 0)
  IN LE(m.pipe_id, 2) \o LE(bit_field, 1) \o write_bin(m.payload)

\* Control::write_to
Control_write_to(m) ==
  IF m.variant = "SystemConfig"
    THEN LE(ID_CTRL_SYSCONFIG, 1) \o LE(m.version, 2) \o LE(m.node_id, 16)
           \o LE(m.session_id, 16) \o LE(m.utc_time, 8) \o LE(m.ping_interval, 4)
           \o LE(m.session_timeout, 4)
    ELSE LE(ID_CTRL_PING, 1) \o LE(m.utc_time, 8)

write_to(m) ==
  CASE m.variant = "Open" -> Open_write_to(m)
    [] m.variant = "Close" -> Close_write_to(m)
    [] m.variant = "Block" -> Block_write_to(m)
    [] OTHER -> Control_write_to(m)

\* read_exact of n bytes at position pos of the slice: the bytes and the new
\* position, or UnexpectedEof, which From<io::Error> turns into BufferUnsatisfied
MapEof(buf, pos, n) == [ok |-> FALSE, err |-> "BufferUnsatisfied"]
read_n(buf, pos, n) ==
  IF pos + n <= Len(buf)
    THEN [ok |-> TRUE, v |-> SubSeq(buf, pos + 1, pos + n), pos |-> pos + n]
    ELSE MapEof(buf, pos, n)

\* read_bin: read_u16 gives the expected length, then read_exact of that many bytes
read_bin(buf, pos) ==
  LET h == read_n(buf, pos, 2)
  IN IF h.ok THEN read_n(buf, h.pos, FromLE(h.v)) ELSE h

\* Open::read_from
Open_read_from(buf) ==
  LET a == read_n(buf, 0, 2)
      b == read_n(buf, 2, 2)
      c == read_n(buf, 4, 1)
      d == read_bin(buf, 5)
  IN IF ~a.ok THEN Err(a.err)
     ELSE IF ~b.ok THEN Err(b.err)
     ELSE IF ~c.ok THEN Err(c.err)
     ELSE IF ~d.ok THEN Err(d.err)
     ELSE Ok([variant |-> "Open", pipe_id |-> FromLE(a.v), function_id |-> FromLE(b.v),
              priority |-> FromLE(c.v), params |-> d.v])

\* Close::read_from
Close_read_from(buf) ==
  LET a == read_n(buf, 0, 2)
      b == read_n(buf, 2, 1)
      d == read_bin(buf, 3)
  IN IF ~a.ok THEN Err(a.err)
     ELSE IF ~b.ok THEN Err(b.err)
     ELSE IF ~d.ok THEN Err(d.err)
     ELSE Ok([variant |-> "Close", pipe_id |-> FromLE(a.v),
              failure |-> (FromLE(b.v) % 2 = 1), result |-> d.v])

\* Block::read_from
Block_read_from(buf) ==
  LET a == read_n(buf, 0, 2)
      b == read_n(buf, 2, 1)
      d == read_bin(buf, 3)
  IN IF ~a.ok THEN Err(a.err)
     ELSE IF ~b.ok THEN Err(b.err)
     ELSE IF ~d.ok THEN Err(d.err)
     ELSE Ok([variant |-> "Block", pipe_id |-> FromLE(a.v), eof |-> (FromLE(b.v) >= 128),
              loss |-> FromLE(b.v) % 128, payload |-> d.v])

\* The match of Control::read_from on the tag byte
ControlKind_NoPing(tag) ==
  IF tag = ID_CTRL_SYSCONFIG THEN "SystemConfig" ELSE "unexpected"
ControlKind(tag) ==
  CASE tag = ID_CTRL_SYSCONFIG -> "SystemConfig"
    [] tag = ID_CTRL_PING -> "Ping"
    [] OTHER -> "unexpected"

\* Control::read_from
Control_read_from(buf) ==
  LET t == read_n(buf, 0, 1) IN
  IF ~t.ok THEN Err(t.err)
  ELSE CASE ControlKind(FromLE(t.v)) = "SystemConfig" ->
              LET a == read_n(buf, 1, 2)
                  b == read_n(buf, 3, 16)
                  c == read_n(buf, 19, 16)
                  d == read_n(buf, 35, 8)
                  e == read_n(buf, 43, 4)
                  f == read_n(buf, 47, 4)
              IN IF ~a.ok THEN Err(a.err)
                 ELSE IF ~b.ok THEN Err(b.err)
                 ELSE IF ~c.ok THEN Err(c.err)
                 ELSE IF ~d.ok THEN Err(d.err)
                 ELSE IF ~e.ok THEN Err(e.err)
                 ELSE IF ~f.ok THEN Err(f.err)
                 ELSE Ok([variant |-> "SystemConfig", version |-> FromLE(a.v),
                          node_id |-> FromLE(b.v), session_id |-> FromLE(c.v),
                          utc_time |-> FromLE(d.v), ping_interval |-> FromLE(e.v),
                          session_timeout |-> FromLE(f.v)])
         [] ControlKind(FromLE(t.v)) = "Ping" ->
              LET d == read_n(buf, 1, 8)
              IN IF ~d.ok THEN Err(d.err)
                 ELSE Ok([variant |-> "Ping", utc_time |-> FromLE(d.v)])
         [] OTHER -> [ok |-> FALSE, err |-> "IllegalControlType", value |-> FromLE(t.v)]

\* Where the Cursor stands when X::read_from has returned Ok: behind the last
\* byte its reads consumed.
position(variant, buf) ==
  CASE variant = "Open" -> read_bin(buf, 5).pos
    [] variant \in {"Close", "Block"} -> read_bin(buf, 3).pos
    [] OTHER -> IF ControlKind(buf[1]) = "SystemConfig" THEN read_n(buf, 47, 4).pos
                ELSE read_n(buf, 1, 8).pos

read_from(variant, buf) ==
  CASE variant = "Open" -> Open_read_from(buf)
    [] variant = "Close" -> Close_read_from(buf)
    [] variant = "Block" -> Block_read_from(buf)
    [] OTHER -> Control_read_from(buf)

\* verify_pipe_id
verify_pipe_id_Never(pipe_id) == TRUE
verify_pipe_id(pipe_id) == pipe_id # 0

\* Open::new
Open_new(a) ==
  IF ~verify_pipe_id(a.pipe_id) THEN Err("ZeroPipeId")
  ELSE Ok([variant |-> "Open", pipe_id |-> a.pipe_id, function_id |-> a.function_id,
           priority |-> a.priority, params |-> a.params])

\* Close::new
Close_new(a) ==
  IF ~verify_pipe_id(a.pipe_id) THEN Err("ZeroPipeId")
  ELSE Ok([variant |-> "Close", pipe_id |-> a.pipe_id, failure |-> a.failure,
           result |-> a.result])

\* Block::new
Block_new(a) ==
  IF ~verify_pipe_id(a.pipe_id) THEN Err("ZeroPipeId")
  ELSE IF Len(a.payload) > MAX_PAYLOAD_SIZE THEN Err("PayloadTooLarge")
  ELSE IF a.loss > MAX_LOSS_RATE THEN Err("LossRateTooBig")
  ELSE Ok([variant |-> "Block", pipe_id |-> a.pipe_id, eof |-> a.eof, loss |-> a.loss,
           payload |-> a.payload])

\* Control::new_system_config, Control::new_ping
Control_new(a) == Ok(a)

new(a) ==
  CASE a.variant = "Open" -> Open_new(a)
    [] a.variant = "Close" -> Close_new(a)
    [] a.variant = "Block" -> Block_new(a)
    [] OTHER -> Control_new(a)

\* ---- the inputs the codec is exercised with
\* Fill(n, a): n bytes a+1, a+2, ... (mod 256)
Fill(n, a) == [i \in 1..n |-> (a + i) % 256]

\* Lengths of the binary fields: the short ones, and the ones around the
\* payload cap and around the range of the u16 length prefix.
BinLens ==
  (0..SmallLen) \cup {MAX_PAYLOAD_SIZE, MAX_PAYLOAD_SIZE + 1, 65535, 65536, 65536 + SmallLen}
Bins == {Fill(n, 3) : n \in BinLens} \cup {Fill(n, 2) : n \in 1..SmallLen}

PipeIds == {0, 1, 258, 65535}
Losses == {0, 2, MAX_LOSS_RATE, MAX_LOSS_RATE + 1, 255}

OpenArgs ==
  {[variant |-> "Open", pipe_id |-> p, function_id |-> f, priority |-> 3, params |-> b]
     : p \in PipeIds, f \in {2, 513}, b \in Bins}
CloseArgs ==
  {[variant |-> "Close", pipe_id |-> p, failure |-> x, result |-> b]
     : p \in PipeIds, x \in BOOLEAN, b \in Bins}
BlockArgs ==
  {[variant |-> "Block", pipe_id |-> p, eof |-> x, loss |-> l, payload |-> b]
     : p \in PipeIds, x \in BOOLEAN, l \in Losses, b \in Bins}
ControlArgs ==
  {[variant |-> "Ping", utc_time |-> t] : t \in {1, 258}}
    \cup {[variant |-> "SystemConfig", version |-> v, node_id |-> 2, session_id |-> s,
           utc_time |-> 4, ping_interval |-> 5, session_timeout |-> 6]
            : v \in {1, 258}, s \in {3, 65536}}
Args == OpenArgs \cup CloseArgs \cup BlockArgs \cup ControlArgs

\* Prefix lengths read_from is tried on: every one for a short encoding, the
\* first and the last ones for a long encoding.
Cuts(n) ==
  IF n <= FullCut THEN 0..n
  ELSE (0..HeadCut) \cup {n - 2, n - 1, n}

\* Bytes Control::read_from is given that no write_to produced: any tag byte,
\* followed by nothing, by too little, or by enough for either variant.
\* (the bytes that follow are 7, 0, 0, ...: they decode to small field values)
RawControl ==
  {<<>>} \cup {<<t>> \o [i \in 1..n |-> IF i = 1 THEN 7 ELSE 0] : t \in 0..255, n \in {0, 1, 8, 50}}

\* Bit-field bytes of received Close and Block messages.
RawBits == {0, 1, 2, 127, 128, 129, 255}

\* Bytes Open, Close or Block::read_from is given that no write_to need have
\* produced: any of the pipe ids, the fixed fields, and then nothing, or a
\* binary field with its length prefix (short, or one byte over the payload
\* cap), or a binary field cut short by one byte.
RawMessage(variant) ==
  LET heads == {LE(p, 2) \o (IF variant = "Open" THEN <<2, 0, b>> ELSE <<b>>)
                  : p \in PipeIds, b \in RawBits}
      bins == {write_bin(Fill(n, 3)) : n \in {0, SmallLen, MAX_PAYLOAD_SIZE + 1}}
      tails == {<<>>} \cup bins \cup {SubSeq(x, 1, Len(x) - 1) : x \in bins}
  IN {h \o t : h \in heads, t \in tails}

\* ---- the operations
\* X::new(arguments)
New(a) ==
  /\ cstage = "idle"
  /\ args' = a
  /\ cmsg' = new(a)
  /\ cstage' = "made"
  /\ UNCHANGED <<wire, got, more, cut>>
  /\ UNCHANGED dispVars

\* m.write_to(&mut Vec::new())
WriteTo ==
  /\ cstage = "made" /\ cmsg.ok
  /\ wire' = write_to(cmsg.v)
  /\ cstage' = "written"
  /\ UNCHANGED <<args, cmsg, got, more, cut>>
  /\ UNCHANGED dispVars

\* X::read_from(&mut Cursor::new(&buf[0..k]))
ReadFrom(k) ==
  /\ cstage = "written"
  /\ got' = read_from(cmsg.v.variant, SubSeq(wire, 1, k))
  /\ cut' = k
  /\ cstage' = "read"
  /\ UNCHANGED <<args, cmsg, wire, more>>
  /\ UNCHANGED dispVars

\* Control::read_from on bytes received
ReadRaw(b) ==
  /\ cstage = "idle"
  /\ wire' = b
  /\ got' = Control_read_from(b)
  /\ cut' = Len(b)
  /\ cstage' = "raw"
  /\ UNCHANGED <<args, cmsg, more>>
  /\ UNCHANGED dispVars

\* Open, Close or Block::read_from on bytes received (args keeps which)
ReadBytes(variant, b) ==
  /\ cstage = "idle"
  /\ args' = [variant |-> variant]
  /\ wire' = b
  /\ got' = read_from(variant, b)
  /\ cut' = Len(b)
  /\ cstage' = "bytes"
  /\ UNCHANGED <<cmsg, more>>
  /\ UNCHANGED dispVars

\* The messages written behind a first one: a short one of each kind.
Seconds ==
  {[variant |-> "Open", pipe_id |-> 1, function_id |-> 2, priority |-> 3, params |-> Fill(1, 3)],
   [variant |-> "Close", pipe_id |-> 258, failure |-> TRUE, result |-> <<>>],
   [variant |-> "Block", pipe_id |-> 1, eof |-> TRUE, loss |-> 2, payload |-> Fill(SmallLen, 2)],
   [variant |-> "Ping", utc_time |-> 258]}

\* m1.write_to(&mut buf) (done), m2.write_to(&mut buf) for m2 = new(a2), then
\* X::read_from(&mut cursor) twice on one Cursor over buf: the second read
\* starts where the first has left the cursor.
ReadTwo(a2) ==
  /\ cstage = "written"
  /\ new(a2).ok
  /\ LET buf == wire \o write_to(new(a2).v)
         first == read_from(cmsg.v.variant, buf)
     IN /\ wire' = buf
        /\ got' = first
        /\ cut' = Len(buf)
        /\ more' = IF first.ok
                     THEN [ok |-> TRUE, m |-> new(a2).v, pos |-> position(cmsg.v.variant, buf),
                           got |-> read_from(a2.variant,
                                             SubSeq(buf, position(cmsg.v.variant, buf) + 1, Len(buf)))]
                     ELSE [ok |-> FALSE]
  /\ cstage' = "two"
  /\ UNCHANGED <<args, cmsg>>
  /\ UNCHANGED dispVars

CodecNext ==
  \/ \E a2 \in Seconds : ReadTwo(a2)
  \/ \E a \in Args : New(a)
  \/ WriteTo
  \/ \E k \in Cuts(Len(wire)) : ReadFrom(k)
  \/ \E b \in RawControl : ReadRaw(b)
  \/ \E variant \in {"Open", "Close", "Block"} : \E b \in RawMessage(variant) : ReadBytes(variant, b)

CodecSpec == Init /\ [][CodecNext]_vars

\* ------------------------------------------------------------------ properties
\* No call on the Dispatcher is under way.
FacadeIdle == extPc = "idle"

\* The loop thread has a step it can take without a socket becoming ready and
\* without another call on the Dispatcher.
LoopRuns ==
  \/ pc \in {"dispatch", "cleanup"}
  \/ pc = "poll" /\ wakeReady
  \/ pc = "tasks" /\ (chan # <<>> \/ ~dAlive)

\* C1: after one stop() on a running Dispatcher the loop terminates with every
\* socket deregistered and removed.  Stated on the states in which the call
\* has returned and the loop has nothing left that lets it go on: there the
\* loop must have terminated.
C1_StopTerminatesLoop ==
  (stopCalls = 1 /\ dAlive /\ FacadeIdle /\ ~LoopRuns)
    => (pc = "done" /\ ids = {} /\ DOMAIN reg = {})

\* C2: dropping a Dispatcher that was never stopped stops it: the loop's closed
\* flag gets set, every socket is deregistered and the loop thread terminates
\* instead of staying blocked in poll.
C2_DropStopsLoop ==
  (stopCalls = 0 /\ ~dAlive /\ FacadeIdle /\ ~LoopRuns)
    => (lClosed /\ pc = "done" /\ ids = {} /\ DOMAIN reg = {})

\* C3: stop() is idempotent: n >= 1 calls have the loop-side effect of one
\* call, the loop's closed flag becomes true, and every stop future resolves
\* to Ok(0).
C3_StopIdempotent ==
  (stopCalls >= 1 /\ FacadeIdle /\ ~LoopRuns)
    => /\ lClosed
       /\ \A t \in 1..Len(slot) :
            slot[t].kind = "stop" => (slot[t].st = "ok" /\ slot[t].id = 0)

\* C4: the task drain returns without waiting for further submissions: when no
\* task is pending the loop leaves run_all_tasks, so it never waits in the
\* channel while the Dispatcher is alive.
C4_DrainDoesNotWait ==
  (pc = "tasks" /\ chan = <<>>) => ENABLED TasksReturn

\* C5: when a handler callback returns Dispose the socket is deregistered from
\* the poller, its id is removed from the registry, and the loop goes on with
\* the iteration (it does not hang on the socket lock it holds).
C5_DisposeKeepsRunning ==
  lastCb.act = "Dispose"
    => /\ lastCb.tok \notin ids
       /\ lastCb.tok \notin DOMAIN reg
       /\ pc \in {"dispatch", "tasks"}

\* C6: every submitted task is executed exactly once and its result written;
\* no task stays in the channel while the loop is blocked in poll with no
\* wake-up pending or about to be made.
C6_EveryTaskExecuted ==
  /\ \A i, j \in 1..Len(execOrder) : execOrder[i] = execOrder[j] => i = j
  /\ \A i \in 1..Len(execOrder) : slot[execOrder[i]].st # "none"
  /\ (pc = "poll" /\ chan # <<>>) => (wakeReady \/ extPc \in {"wake", "dropwake"})
  /\ (FacadeIdle /\ ~LoopRuns /\ fault = "none")
       => \A t \in 1..Len(slot) : slot[t].st # "none"

Threads == {1, 2}

\* C8: tasks submitted by one thread are executed in submission order:
\* whichever thread submitted each task (slot is in submission order), two
\* tasks of the same thread are executed in the order of their submission.
C8_SubmissionOrder ==
  \A by \in [1..Len(slot) -> Threads] :
    \A i, j \in 1..Len(execOrder) :
      (i < j /\ by[execOrder[i]] = by[execOrder[j]]) => execOrder[i] < execOrder[j]

\* Two register tasks were executed, the second one submitted while the
\* first was still in the channel.
C8_Witness ==
  /\ execOrder = <<1, 2>>
  /\ slot[1].st = "ok"
  /\ slot[2].st = "ok"

\* C9: every id available_id returns lies in 1 ..= MAX-1.
C9_IdInRange ==
  lastAlloc.kind = "ok" => lastAlloc.id \in 1..(USIZE_MAX - 1)

\* C10: no two live sockets share an id: an id that available_id returns is
\* not a key of the registry, and the registration that follows adds one
\* entry and overwrites none.
C10_NoSharedId ==
  lastAlloc.kind = "ok"
    => /\ lastAlloc.id \notin lastAlloc.before
       /\ lastAlloc.set =>
            /\ ids = lastAlloc.before \cup {lastAlloc.id}
            /\ Cardinality(ids) = Cardinality(lastAlloc.before) + 1

\* A registration filled the registry: max entries under max distinct ids,
\* the last id found by scanning past a live one.
C10_Witness ==
  /\ lastAlloc.kind = "ok" /\ lastAlloc.set
  /\ Cardinality(ids) = max
  /\ lastAlloc.id - 1 \in lastAlloc.before
  /\ lastAlloc.id + 1 \in lastAlloc.before

\* C11: allocation fails with TooManySockets if and only if the registry holds
\* exactly MAX-2 live entries; in every other state available_id returns an id
\* (it does not overflow and does not reach unreachable!()).
C11_TooManyIffFull ==
  lastAlloc.kind # "none"
    => IF Cardinality(lastAlloc.before) = max
         THEN lastAlloc.kind = "err"
         ELSE lastAlloc.kind = "ok"

\* C12: when the wake() of a submission fails, the submission does not panic
\* and the future it returned resolves with an I/O error.
C12_WakeFailureResolves ==
  \A t \in 1..Len(slot) :
    slot[t].poke = "failed"
      => /\ extPc # "panicked"
         /\ slot[t].st = "err"
         /\ slot[t].err = "Io"

\* C13: once a stop task has set closed = true, the loop executes no task that
\* was submitted after that, deregisters all sockets and exits: no executed
\* task was submitted with the flag already set, and when the flag is set and
\* the loop has nothing left that lets it go on, it has terminated with the
\* registry and the poller empty.
C13_ClosedSemantic ==
  /\ \A i \in 1..Len(execOrder) : ~slot[execOrder[i]].late
  /\ (lClosed /\ FacadeIdle /\ ~LoopRuns)
       => (pc = "done" /\ ids = {} /\ DOMAIN reg = {})

\* C14: after a stream's on_ready_to_write has returned ChangeFlag(READABLE),
\* the loop makes no on_ready_to_write call on that socket until an action
\* sets an interest that includes WRITABLE: no on_ready_to_write call is made
\* on a muted stream.
C14_NoWriteWhileMuted ==
  lastCb.cb = "on_ready_to_write" => ~lastCb.muted

\* A muted stream had an event dispatched: its on_ready_to_read or on_error
\* was called while WRITABLE was switched off.
C14_Witness ==
  /\ lastCb.muted
  /\ lastCb.cb \in {"on_ready_to_read", "on_error"}
  /\ reg[lastCb.tok] = {"r"}

\* C15: codec round trip: for every Open, Close, Block and Control value m the
\* constructors return, read_from applied to all the bytes m.write_to
\* produced returns a value equal to m.
C15_RoundTrip ==
  (cstage = "read" /\ cut = Len(wire)) => got = Ok(cmsg.v)

\* C16: truncation: read_from on a proper prefix e[0..k], 0 <= k < n, of an
\* encoding e of length n fails with BufferUnsatisfied: it returns no other
\* error and no message.
C16_Truncation ==
  (cstage = "read" /\ cut < Len(wire)) => got = Err("BufferUnsatisfied")

\* C17: constructor validation: Open::new, Close::new and Block::new return
\* ZeroPipeId exactly when pipe_id = 0; Block::new rejects a loss above 127
\* with LossRateTooBig and a payload longer than 0xEFFF with PayloadTooLarge
\* (either of the two when both are wrong); for all other arguments the
\* constructor succeeds and every field of the result is the argument.
C17_ConstructorValidation ==
  (cstage = "made" /\ args.variant \in {"Open", "Close", "Block"})
    => LET lossBig == args.variant = "Block" /\ args.loss > 127
           payloadBig == args.variant = "Block" /\ Len(args.payload) > 61439
       IN /\ (cmsg = Err("ZeroPipeId")) <=> (args.pipe_id = 0)
          /\ (args.pipe_id # 0 /\ lossBig /\ ~payloadBig) => cmsg = Err("LossRateTooBig")
          /\ (args.pipe_id # 0 /\ payloadBig /\ ~lossBig) => cmsg = Err("PayloadTooLarge")
          /\ (args.pipe_id # 0 /\ payloadBig /\ lossBig)
               => cmsg \in {Err("PayloadTooLarge"), Err("LossRateTooBig")}
          /\ (args.pipe_id # 0 /\ ~payloadBig /\ ~lossBig) => cmsg = Ok(args)

\* Block::new was given the largest pipe id, the largest payload it accepts
\* and the smallest loss it rejects.
C17_Witness ==
  /\ cstage = "made" /\ args.variant = "Block"
  /\ args.pipe_id = 65535 /\ Len(args.payload) = 61439 /\ args.loss = 128
  /\ cmsg = Err("LossRateTooBig")

\* C18: Control::read_from on bytes whose first byte t is neither 'Q' (81) nor
\* 'P' (80) fails with IllegalControlType carrying t, whatever follows; 'Q'
\* selects SystemConfig and 'P' selects Ping.
C18_ControlTag ==
  (cstage = "raw" /\ wire # <<>>)
    => LET t == wire[1] IN
       /\ t \notin {80, 81}
            => got = [ok |-> FALSE, err |-> "IllegalControlType", value |-> t]
       /\ t = 81 => IF Len(wire) >= 51 THEN got.ok /\ got.v.variant = "SystemConfig"
                    ELSE got = Err("BufferUnsatisfied")
       /\ t = 80 => IF Len(wire) >= 9 THEN got.ok /\ got.v.variant = "Ping"
                    ELSE got = Err("BufferUnsatisfied")

\* Control::read_from was given 'R' followed by as many bytes as a
\* SystemConfig has.
C18_Witness ==
  /\ cstage = "raw" /\ Len(wire) = 51 /\ wire[1] = 82
  /\ got.err = "IllegalControlType" /\ got.value = 82

\* The byte of v at place i (1 = lowest).
RECURSIVE Digit(_, _)
Digit(v, i) == IF i = 1 THEN v % 256 ELSE Digit(v \div 256, i - 1)
\* The bytes from..to of wire are v in little-endian order.
IsLE(from, to, v) == \A i \in from..to : wire[i] = Digit(v, i - from + 1)
\* The bytes from position from on are a two-byte length and that many bytes bin.
IsBin(from, bin) ==
  /\ Len(wire) = from + 1 + Len(bin)
  /\ wire[from] + 256 * wire[from + 1] = Len(bin)
  /\ SubSeq(wire, from + 2, Len(wire)) = bin

\* C19: write_to produces exactly the specified layout: Open = pipe_id(2)
\* function_id(2) priority(1) len(2) params; Close = pipe_id(2) bitfield(1,
\* bit 0 = failure) len(2) result; Block = pipe_id(2) bitfield(1, bit 7 = eof,
\* bits 0-6 = loss) len(2) payload; Ping = 'P' utc_time(8); SystemConfig = 'Q'
\* version(2) node_id(16) session_id(16) utc_time(8) ping_interval(4)
\* session_timeout(4); all little-endian.  The two encodings the
\* specification spells out are among them.
C19_Layout ==
  cstage = "written"
    => LET m == cmsg.v IN
       /\ m.variant = "Open"
            => /\ IsLE(1, 2, m.pipe_id) /\ IsLE(3, 4, m.function_id)
               /\ wire[5] = m.priority /\ IsBin(6, m.params)
       /\ m.variant = "Close"
            => /\ IsLE(1, 2, m.pipe_id)
               /\ wire[3] = (IF m.failure THEN 1 ELSE 0) /\ IsBin(4, m.result)
       /\ m.variant = "Block"
            => /\ IsLE(1, 2, m.pipe_id)
               /\ wire[3] = (IF m.eof THEN 128 ELSE 0) + m.loss /\ IsBin(4, m.payload)
       /\ m.variant = "Ping"
            => Len(wire) = 9 /\ wire[1] = 80 /\ IsLE(2, 9, m.utc_time)
       /\ m.variant = "SystemConfig"
            => /\ Len(wire) = 51 /\ wire[1] = 81
               /\ IsLE(2, 3, m.version) /\ IsLE(4, 19, m.node_id)
               /\ IsLE(20, 35, m.session_id) /\ IsLE(36, 43, m.utc_time)
               /\ IsLE(44, 47, m.ping_interval) /\ IsLE(48, 51, m.session_timeout)
       /\ m = [variant |-> "Open", pipe_id |-> 1, function_id |-> 2, priority |-> 3,
               params |-> <<4, 5>>]
            => wire = <<1, 0, 2, 0, 3, 2, 0, 4, 5>>
       /\ m = [variant |-> "Block", pipe_id |-> 1, eof |-> TRUE, loss |-> 2,
               payload |-> <<3, 4>>]
            => wire = <<1, 0, 130, 2, 0, 3, 4>>

\* C20: an id that is absent from the registry is not registered with the
\* poller: disposal never leaves the id free while its source is still
\* registered.  (When the loop thread has panicked its Poll is dropped with
\* it, and nothing is registered any more.)
C20_FreeIdNotRegistered ==
  pc # "panicked" => DOMAIN reg \subseteq ids

\* The reference allocator: the first id not live on the ring 1 ..= MAX-1,
\* scanned upward from c and wrapping from MAX-1 back to 1.
RECURSIVE RingScan(_, _)
RingScan(c, live) ==
  IF c \notin live THEN c
  ELSE RingScan(IF c = USIZE_MAX - 1 THEN 1 ELSE c + 1, live)

\* C21: with cursor next and fewer than MAX-2 live ids, available_id returns
\* the first non-live id in the cyclic order next+1, next+2, ..., MAX-1, 1, 2,
\* ...: the id the reference allocator returns.
C21_CyclicScan ==
  (lastAlloc.kind # "none" /\ Cardinality(lastAlloc.before) < max)
    => /\ lastAlloc.kind = "ok"
       /\ lastAlloc.id = RingScan(lastAlloc.nx + 1, lastAlloc.before \cap (1..(USIZE_MAX - 1)))

\* C22: when reregister fails while ChangeFlag(interest) is applied, the
\* failure is confined to that socket: the socket is deregistered and removed
\* from the registry and the loop goes on; the loop thread does not terminate.
C22_ReregisterFailureDisposes ==
  fault = "reregister"
    => /\ lastCb.tok \notin ids
       /\ lastCb.tok \notin DOMAIN reg
       /\ pc \in {"dispatch", "tasks", "poll"}

\* C23: on a readable event of a listener, a failed accept makes the loop call
\* the handler's on_error and a successful one on_accept; in both cases the
\* loop goes on running.
C23_AcceptFailureReported ==
  /\ fault = "accept" => (lastCb.cb = "on_error" /\ pc \in {"dispatch", "tasks", "poll"})
  /\ (lastCb.cb = "on_accept" /\ lastCb.act = "Continue") => pc = "dispatch"


\* C24: once a socket callback returned Dispose the socket is out of the
\* SocketMap, and the loop makes no later callback step for that socket, not
\* even for readiness the same event still carries: no callback step begins
\* on a socket that is already removed.
C24_NoCallbackAfterDispose == ~lastCb.gone

\* C24 witness: on_ready_to_read returned Dispose while the same event still
\* carried writable readiness, and the loop went no further.
C24_Witness ==
  /\ lastCb.cb = "on_ready_to_read"
  /\ lastCb.act = "Dispose"
  /\ "w" \in lastCb.ready
  /\ lastCb.tok \notin ids
  /\ pc \in {"stuck", "panicked"}

\* C25: for one stream event the callbacks come in the order on_ready_to_read,
\* on_ready_to_write, on_error, each only when the event carries that
\* readiness; on_error is called only when take_error() yields an error or
\* fails itself; and the action a callback returned is applied before the
\* next callback (a changed interest is already the registered one).
C25_CallbackOrder ==
  /\ lastCb.cb = "on_ready_to_read" => "r" \in lastCb.ready
  /\ lastCb.cb = "on_ready_to_write" => ("w" \in lastCb.ready /\ "r" \notin lastCb.ready)
  /\ lastCb.cb = "on_error" =>
       /\ lastCb.ready = {"e"}
       /\ lastCb.te \in {"some", "failed"}
  /\ (lastCb.tok # NoTok /\ lastCb.ready = {"e"} /\ lastCb.te = "none") => lastCb.cb = "none"
  /\ (lastCb.cb \in {"on_ready_to_read", "on_ready_to_write", "on_error"}
        /\ lastCb.act = "ChangeFlag" /\ fault = "none" /\ pc \in {"dispatch", "tasks"})
       => reg[lastCb.tok] = lastCb.i

\* C25 witness: on_ready_to_read changed the interest, the change is
\* registered, and the writable and error readiness of the same event are
\* still to be dispatched.
C25_Witness ==
  /\ pc = "dispatch"
  /\ cur = lastCb.tok
  /\ lastCb.cb = "on_ready_to_read"
  /\ lastCb.act = "ChangeFlag"
  /\ lastCb.tok \in DOMAIN events
  /\ events[lastCb.tok].f = {"w", "e"}
  /\ reg[lastCb.tok] = lastCb.i


\* C26: a failure to deregister a socket during the final cleanup is
\* swallowed: the loop thread goes on with the cleanup (or has finished it and
\* returned), and once it has returned the registry is empty.
C26_CleanupSwallowsFailure ==
  fault = "deregister"
    => /\ pc \in {"cleanup", "done"}
       /\ pc = "done" => ids = {}


\* What holds of the completion slot of task t.
SlotInv(t) ==
  /\ slot[t].taken => (slot[t].st # "none" /\ slot[t].out = "Ready")
  /\ slot[t].out = "Ready" => slot[t].taken
  /\ (slot[t].out = "Pending" /\ slot[t].st = "none") => slot[t].waker = slot[t].pw
  /\ slot[t].waker # 0 => slot[t].out = "Pending"
  /\ slot[t].st # "none" => slot[t].waker = 0

\* What holds of a step for the completion slot of task t: the result is
\* written by the loop's execution of t and by nothing else, and never again;
\* a poll that finds the result takes it and returns Ready, a poll that finds
\* none stores its waker and returns Pending.
SlotStep(t) ==
  /\ slot[t].st # "none"
       => (slot'[t].st = slot[t].st /\ slot'[t].id = slot[t].id /\ slot'[t].err = slot[t].err)
  /\ slot'[t].st # slot[t].st => execOrder' = Append(execOrder, t)
  /\ (execOrder' = Append(execOrder, t) /\ pc' # "panicked") => slot'[t].st # "none"
  /\ slot'[t].out # slot[t].out \/ slot'[t].pw # slot[t].pw
       => IF slot[t].st # "none" /\ ~slot[t].taken
            THEN slot'[t].out = "Ready" /\ slot'[t].taken /\ slot'[t].waker = slot[t].waker
            ELSE slot'[t].out = "Pending" /\ slot'[t].waker = slot'[t].pw /\ ~slot'[t].taken

C28_RegisterTask ==
  (lastAlloc.set /\ execOrder # <<>>)
    => LET t == execOrder[Len(execOrder)]
           id == slot[t].id
       IN /\ slot[t].st = "ok"
          /\ id = lastAlloc.id
          /\ id \notin lastAlloc.before
          /\ id \in ids
          /\ sockets[id] = slot[t].kind
          /\ id \in DOMAIN reg
          /\ reg[id] = IF slot[t].kind = "Listener" THEN {"r"} ELSE {"r", "w"}

\* C28 witness: register tasks for a listener and for a stream were executed
\* and both sockets are registered, the stream's just now.
C28_Witness ==
  /\ lastAlloc.set
  /\ Len(execOrder) = 2
  /\ slot[execOrder[1]].kind = "Listener" /\ slot[execOrder[1]].st = "ok"
  /\ slot[execOrder[2]].kind = "Stream" /\ slot[execOrder[2]].st = "ok"
  /\ reg[slot[execOrder[1]].id] = {"r"}
  /\ reg[slot[execOrder[2]].id] = {"r", "w"}

\* C29: id 0 is never a key of the registry map, a lookup of id 0 yields the
\* Waker entry, and no socket is registered with the poller under token 0
\* (which is the wake source's).
C29_ZeroReserved ==
  /\ 0 \notin ids
  /\ Resolves(0)
  /\ 0 \notin DOMAIN reg


\* C30: for every message accepted by Open::new, Close::new or Block::new the
\* u16 length prefix written by write_to equals the number of bytes of the
\* binary field that follows it, and the field is all that follows.
C30_PrefixIsLength ==
  (cstage = "written" /\ cmsg.ok /\ args.variant \in {"Open", "Close", "Block"})
    => LET k == IF args.variant = "Open" THEN 6 ELSE 4 IN
       /\ Len(wire) >= k + 1
       /\ wire[k] + 256 * wire[k + 1] = Len(wire) - (k + 1)


\* C31: decoding a Close whose bit-field byte has any of the reserved bits
\* 1-7 set is rejected with IllegalBooleanRepresentation: no Close value is
\* returned for such bytes.
C31_ReservedBitsRejected ==
  (cstage = "bytes" /\ args.variant = "Close" /\ Len(wire) >= 3 /\ wire[3] >= 2)
    => /\ ~got.ok
       /\ got.err \in {"IllegalBooleanRepresentation", "BufferUnsatisfied"}
       /\ (Len(wire) >= 5 /\ Len(wire) = 5 + wire[4] + 256 * wire[5])
            => got.err = "IllegalBooleanRepresentation"

\* The field constraints of a message value.
FieldsValid(m) ==
  /\ m.variant \in {"Open", "Close", "Block"} => m.pipe_id # 0
  /\ m.variant = "Block" => (m.loss \in 0..127 /\ Len(m.payload) <= 61439)

\* C32: every message value obtainable through the public API, built by a
\* constructor or returned by read_from on arbitrary bytes, satisfies the
\* field constraints: pipe_id # 0, Block loss in 0..127, Block payload of at
\* most 0xEFFF bytes.
C32_ValuesValid ==
  /\ (cstage \in {"made", "written", "read"} /\ cmsg.ok) => FieldsValid(cmsg.v)
  /\ (cstage \in {"read", "bytes", "raw"} /\ got.ok) => FieldsValid(got.v)


\* C33: no lost wakeup.  Under every interleaving of the polls of a task's
\* future with the loop's completion of the task: when the result has been
\* written and the last poll returned Pending, the waker that poll stored is
\* the one the loop woke, and it woke it when it wrote the result, not before;
\* no waker is left in a slot whose result is written.
C33_NoLostWakeup ==
  \A t \in 1..Len(slot) :
    /\ (slot[t].st # "none" /\ slot[t].out = "Pending")
         => (slot[t].woke = slot[t].pw /\ slot[t].waker = 0)
    /\ slot[t].woke # 0 => slot[t].st # "none"

\* C33 witness: a future was polled before its task was completed, last with
\* waker 2, and the loop completed the task and woke waker 2.
C33_Witness ==
  \E t \in 1..Len(slot) :
    /\ slot[t].kind \in {"Stream", "Listener"}
    /\ slot[t].st # "none"
    /\ slot[t].out = "Pending"
    /\ slot[t].pw = 2
    /\ slot[t].woke = 2


\* C34: when the closure of a register task fails, because available_id
\* reports TooManySockets or because registering the source with the poller
\* fails, the step inserts nothing into the registry, leaves the live ids and
\* the poller registrations as they were, and the closure's result, which the
\* future resolves with, is that error.
C34_FailedRegisterFrame ==
  [][(lastAlloc'.kind \in {"ok", "err"} /\ ~lastAlloc'.set)
       => /\ sockets' = sockets
          /\ reg' = reg
          /\ lastAlloc'.before = DOMAIN sockets'
          /\ lastAlloc'.err = IF lastAlloc'.kind = "err" THEN "TooManySockets" ELSE "Io"]_vars

\* C34 witness: a registration failed with TooManySockets on a full registry,
\* whose entries and registrations are all still there.
C34_Witness ==
  /\ lastAlloc.kind = "err"
  /\ lastAlloc.err = "TooManySockets"
  /\ Cardinality(ids) = max
  /\ DOMAIN reg = ids


\* A step of a thread that calls the Dispatcher (register, stop, the wake of
\* a submission, drop): it moves that thread on, or touches the facade's
\* closed flag, or creates a task.
CallerStep ==
  \/ extPc' # extPc
  \/ dClosed' # dClosed
  \/ dAlive' # dAlive
  \/ stopCalls' # stopCalls
  \/ Len(slot') # Len(slot)

\* C35: submitting a task from an external thread (enqueue plus wake) changes
\* nothing but the task channel, the wake source and the facade's own closed
\* flag: the registry, the poller registrations, the allocator cursor and the
\* loop's closed flag, like all the loop's state, change only in steps of the
\* loop thread.
C35_SubmissionFrame ==
  [][CallerStep => /\ UNCHANGED <<sockets, reg, next, lClosed>>
                   /\ UNCHANGED <<pc, events, cur, fault, muted, execOrder>>
                   /\ \A t \in 1..Len(slot) : slot'[t].st = slot[t].st]_vars

\* C35 witness: a register call has enqueued its task and is about to wake
\* the loop, which has a socket registered and has advanced its cursor.
C35_Witness ==
  /\ extPc = "wake"
  /\ chan # <<>>
  /\ ids # {} /\ DOMAIN reg = ids
  /\ next > 0


\* C36: read_from consumes exactly the bytes of one encoding: on a reader
\* holding the encoding of m1 followed by the encoding of m2 the first
\* read_from returns m1 and leaves the reader at the first byte of the
\* encoding of m2, and the second read_from returns m2.
C36_ReadsOneEncoding ==
  cstage = "two"
    => /\ got = Ok(cmsg.v)
       /\ more.ok
       /\ more.pos = Len(write_to(cmsg.v))
       /\ more.got = Ok(more.m)

====
